---- MODULE Spec2Model ----
(***************************************************************************)
(* Media Press (src/press.py): the upload/poll HTTP handlers, the worker   *)
(* pool's job body start_processing_job and the three producers            *)
(* process_image, process_video and process_audio_only, as a state machine.*)
(*                                                                         *)
(* Granularity: one action per external effect of a thread (a subprocess   *)
(* run, a decode, a mkdir, a file write, an unlink, a dictionary access);  *)
(* the log lines a thread appends between two effects are appended by the  *)
(* action of the effect they follow.                                       *)
(***************************************************************************)
EXTENDS Integers, Sequences, FiniteSets, TLC

VARIABLES
    config,          \* the loaded config.yml: the default image and video profiles
    darwin,          \* sys.platform == "darwin"
    configured,      \* app.config holds SOURCE_DIR / OUTPUT_DIR
    jobs,            \* the futures submitted to the executor, by job id
    active_futures,  \* the job ids held in the active_futures dictionary
    processing_log,  \* the process-wide log
    source,          \* names of the files in the source directory
    output,          \* <<subdirectory, file name>> of the files in the output tree
    pollers,         \* the request threads serving /processing_status
    main,            \* the main thread: its position, and the workers that returned
    last,            \* the response to the last request of the other routes
    call             \* one call of run_command: its arguments, the tool's result, its end

vars == <<config, darwin, configured, jobs, active_futures, processing_log,
          source, output, pollers, main, last, call>>

\* ------------------------------------------------------------------ bounds

MaxJobs == 2
NumPollers == 2
MaxWorkers == 2
MaxRefused == 1
MaxRequests == 3
MaxStderr == 3

\* ------------------------------------------------------------- constants

SUPPORTED_IMAGE_FORMATS == {".webp", ".jpg", ".jpeg", ".png", ".tiff", ".heic"}
SUPPORTED_AV_FORMATS == {".mp4", ".mov", ".webm", ".mkv", ".avi", ".m4v", ".m4a",
                         ".mp3", ".aac", ".wav", ".flac"}
FORMAT_MAPPING == {"webp", "jpg", "jpeg", "png"}

\* ------------------------------------------------- sequences and strings

RECURSIVE SeqToSet(_)
SeqToSet(s) == IF s = <<>> THEN {} ELSE {Head(s)} \cup SeqToSet(Tail(s))

RECURSIVE Join(_)
\* the characters of a token as one string
Join(cs) == IF cs = <<>> THEN "" ELSE Head(cs) \o Join(Tail(cs))

RECURSIVE Split(_, _)
\* str.split(sep): the list of the (possibly empty) pieces between separators
Split(cs, sep) ==
    IF cs = <<>> THEN << <<>> >>
    ELSE LET rest == Split(Tail(cs), sep)
         IN  IF Head(cs) = sep THEN << <<>> >> \o rest
             ELSE << <<Head(cs)>> \o Head(rest) >> \o Tail(rest)

RECURSIVE LStrip(_)
LStrip(cs) == IF cs # <<>> /\ Head(cs) = " " THEN LStrip(Tail(cs)) ELSE cs

RECURSIVE RStrip(_)
RStrip(cs) ==
    IF cs # <<>> /\ cs[Len(cs)] = " " THEN RStrip(SubSeq(cs, 1, Len(cs) - 1)) ELSE cs

Strip(cs) == RStrip(LStrip(cs))

\* the whitespace of a tool's diagnostic output ("nl" stands for the line feed)
WhiteSpace == {" ", "nl"}

RECURSIVE LStripWS(_)
LStripWS(cs) == IF cs # <<>> /\ Head(cs) \in WhiteSpace THEN LStripWS(Tail(cs)) ELSE cs

RECURSIVE RStripWS(_)
RStripWS(cs) ==
    IF cs # <<>> /\ cs[Len(cs)] \in WhiteSpace
    THEN RStripWS(SubSeq(cs, 1, Len(cs) - 1)) ELSE cs

\* str.strip()
StripWS(cs) == RStripWS(LStripWS(cs))

\* str.splitlines(): the pieces between line feeds, without the empty piece
\* after a final line feed; no piece for the empty string
SplitLines(cs) ==
    LET pieces == Split(cs, "nl")
    IN  IF pieces[Len(pieces)] = <<>> THEN SubSeq(pieces, 1, Len(pieces) - 1) ELSE pieces

\* The characters int() accepts, and the other characters str.isdigit() accepts
\* ("sup2" stands for the one character SUPERSCRIPT TWO).
DecimalChars == {"0", "1", "2", "3", "4", "5", "6", "7", "8", "9"}
DigitChars == DecimalChars \cup {"sup2"}

IsDigit(cs) == cs # <<>> /\ \A i \in 1..Len(cs) : cs[i] \in DigitChars

DigitVal(c) == CHOOSE n \in 0..9 : ToString(n) = c

RECURSIVE IntOf(_)
\* int(token), for a token of decimal characters
IntOf(cs) == IF cs = <<>> THEN 0
             ELSE 10 * IntOf(SubSeq(cs, 1, Len(cs) - 1)) + DigitVal(cs[Len(cs)])

IntRaises(cs) == \E i \in 1..Len(cs) : cs[i] \notin DecimalChars

\* ------------------------------------------------- dictionaries (ordered)
\* A dict is a sequence of <<key, value>> pairs in insertion order.

RECURSIVE DictSet(_, _, _)
\* d[k] = v: an existing key keeps its position
DictSet(d, k, v) ==
    IF d = <<>> THEN << <<k, v>> >>
    ELSE IF Head(d)[1] = k THEN << <<k, v>> >> \o Tail(d)
    ELSE <<Head(d)>> \o DictSet(Tail(d), k, v)

RECURSIVE DictUpdate(_, _)
\* d.update(e)
DictUpdate(d, e) == IF e = <<>> THEN d
                    ELSE DictUpdate(DictSet(d, Head(e)[1], Head(e)[2]), Tail(e))

RECURSIVE DictFilter(_, _)
\* {key: val for key, val in d.items() if key in keys}
DictFilter(d, keys) ==
    IF d = <<>> THEN <<>>
    ELSE (IF Head(d)[1] \in keys THEN <<Head(d)>> ELSE <<>>) \o DictFilter(Tail(d), keys)

\* ---------------------------------------------------------- variant planning

RECURSIVE CustomDict(_)
\* the dict comprehension of get_custom_sizes over the split tokens
CustomDict(toks) ==
    IF toks = <<>> THEN <<>>
    ELSE LET s == Strip(Head(toks))
             rest == CustomDict(Tail(toks))
         IN  IF IsDigit(s)
             THEN DictUpdate(<< <<"custom_" \o Join(s) \o "px", IntOf(s)>> >>, rest)
             ELSE rest

CustomRaises(toks) == \E i \in 1..Len(toks) : IsDigit(Strip(toks[i])) /\ IntRaises(Strip(toks[i]))

\* get_custom_sizes: the custom sizes, and whether the ValueError branch was taken
get_custom_sizes(custom_sizes_str) ==
    IF custom_sizes_str = <<>> THEN [sizes |-> <<>>, invalid |-> FALSE]
    ELSE IF CustomRaises(Split(custom_sizes_str, ","))
         THEN [sizes |-> <<>>, invalid |-> TRUE]
         ELSE [sizes |-> CustomDict(Split(custom_sizes_str, ",")), invalid |-> FALSE]

\* sizes_to_process / heights_to_process after .update(custom_sizes)
MergedSizes(profile_sizes, settings) ==
    DictUpdate(DictFilter(profile_sizes, settings.sizes_to_process),
               get_custom_sizes(settings.custom_sizes).sizes)

\* variant: the retina density alone when include_retina is set
Densities_retina_only(settings) == IF settings.include_retina THEN <<2>> ELSE <<1>>

Densities(settings) == IF settings.include_retina THEN <<1, 2>> ELSE <<1>>

IncludeFullSize(settings) == "full_size" \in settings.sizes_to_process

\* file_path.name
FileName(f) == f.stem \o f.ext

\* the file names the producers format
ImageName(base, label, density, suffix, fmt) ==
    base \o "_" \o label \o "@" \o ToString(density) \o "x" \o suffix \o "." \o fmt

VideoName(base, label, suffix, fmt) == base \o "_" \o label \o suffix \o "." \o fmt

FullSizeName(base, suffix, fmt) == base \o "_full_size" \o suffix \o "." \o fmt

PosterName(base) == base \o "_poster.webp"

AudioName(base) == base \o ".mp3"

\* One step of a producer's plan: an image save, a run_command invocation (with
\* its log_prefix), or a log line.  variant identifies what is rendered:
\* <<role, label, density, tier>>.
\* base_width is the width a save's image is resized to first (0: not resized).
SaveOp(name, variant, base_width) ==
    [op |-> "save", name |-> name, variant |-> variant, log_prefix |-> "",
     base_width |-> base_width]
CmdOp(name, variant, log_prefix) ==
    [op |-> "cmd", name |-> name, variant |-> variant, log_prefix |-> log_prefix,
     base_width |-> 0]
LogOp(msg) ==
    [op |-> "log", name |-> msg, variant |-> <<>>, log_prefix |-> "", base_width |-> 0]

RECURSIVE ImageSaves(_, _, _, _, _, _)
\* the nested loops over sizes_to_process.items() and densities
ImageSaves(base, sizes, dens, suffix, fmt, tier) ==
    IF sizes = <<>> THEN <<>>
    ELSE [i \in 1..Len(dens) |->
             SaveOp(ImageName(base, Head(sizes)[1], dens[i], suffix, fmt),
                    <<"size", Head(sizes)[1], dens[i], tier>>, Head(sizes)[2])]
         \o ImageSaves(base, Tail(sizes), dens, suffix, fmt, tier)

\* process_image after mkdir, to the end of the with block
ImagePlan(base, profile_sizes, settings) ==
    LET sizes == MergedSizes(profile_sizes, settings)
        dens == Densities(settings)
        fmt == settings.image_format
        full == IncludeFullSize(settings)
    IN  (IF sizes # <<>>
         THEN ImageSaves(base, sizes, dens, "", fmt, "standard")
              \o <<LogOp("Resized versions created")>>
         ELSE <<>>)
        \o (IF full
            THEN <<SaveOp(FullSizeName(base, "", fmt), <<"full_size", "", 0, "standard">>, 0),
                   LogOp("Created: " \o FullSizeName(base, "", fmt))>>
            ELSE <<>>)
        \o (IF settings.compression_mode = "max_compression"
            THEN <<LogOp("Creating compressed versions")>>
                 \o ImageSaves(base, sizes, dens, "_compressed", fmt, "max_compression")
                 \o (IF full
                     THEN <<SaveOp(FullSizeName(base, "_compressed", fmt),
                                   <<"full_size", "", 0, "max_compression">>, 0)>>
                     ELSE <<>>)
                 \o <<LogOp("Compressed versions created")>>
            ELSE <<>>)

\* the loop over heights_to_process.items()
VideoRenditions(base, heights, suffix, fmt, tier, log_prefix) ==
    [i \in 1..Len(heights) |->
        CmdOp(VideoName(base, heights[i][1], suffix, fmt), <<"size", heights[i][1], 0, tier>>,
              log_prefix \o ToString(heights[i][2]) \o "p")]

\* process_video after mkdir, to the end of the try block
VideoPlan(file, heights_map, settings) ==
    LET base == file.stem
        heights == MergedSizes(heights_map, settings)
        fmt == settings.video_format
        full == IncludeFullSize(settings)
    IN  <<CmdOp(PosterName(base), <<"poster", "", 0, "standard">>, "Creating a poster:"),
          LogOp("Creating standard versions")>>
        \o VideoRenditions(base, heights, "", fmt, "standard", "Version created ")
        \o (IF full
            THEN <<CmdOp(FullSizeName(base, "", fmt), <<"full_size", "", 0, "standard">>,
                         "Version created full_size")>>
            ELSE <<>>)
        \o (IF settings.compression_mode = "max_compression"
            THEN <<LogOp("Creating compressed versions")>>
                 \o VideoRenditions(base, heights, "_compressed", fmt, "max_compression",
                                    "Compressed version created ")
                 \o (IF full
                     THEN <<CmdOp(FullSizeName(base, "_compressed", fmt),
                                  <<"full_size", "", 0, "max_compression">>,
                                  "Compressed version created full_size")>>
                     ELSE <<>>)
            ELSE <<>>)
        \o <<LogOp("Video processed: " \o FileName(file))>>

\* process_audio_only after mkdir, to the end of the try block
AudioPlan(file) ==
    <<CmdOp(AudioName(file.stem), <<"audio", "", 0, "standard">>, "Conversion to mp3:"),
      LogOp("Audio completed: " \o FileName(file))>>

RECURSIVE LeadingLogs(_)
\* the log lines a plan appends before its next save or invocation
LeadingLogs(todo) ==
    IF todo # <<>> /\ Head(todo).op = "log"
    THEN <<Head(todo).name>> \o LeadingLogs(Tail(todo))
    ELSE <<>>

RECURSIVE DropLogs(_)
DropLogs(todo) ==
    IF todo # <<>> /\ Head(todo).op = "log" THEN DropLogs(Tail(todo)) ELSE todo

\* the saves and invocations of a plan, in order
Effects(plan) == SelectSeq(plan, LAMBDA o : o.op # "log")

\* ------------------------------------------------------------ files and jobs

\* original_path.with_suffix('.temp.png')
TempName(f) == f.stem \o ".temp.png"

\* file_path.suffix.lower()
Lower(ext) == IF ext = ".PNG" THEN ".png" ELSE IF ext = ".MP4" THEN ".mp4" ELSE ext

\* prepare_image_path takes the conversion branch
UsesTemp(f) == Lower(f.ext) = ".heic" /\ darwin

\* new_width, new_height = base_width * density,
\*                         int(img.height * (base_width * density / img.width))
\* int() truncates.  The quotient is a double in the code; on the widths and
\* image sizes of this model the truncated double equals the truncated exact
\* quotient computed here.
ResizedSize(img, base_width, density) ==
    <<base_width * density, (img.height * (base_width * density)) \div img.width>>

\* a future as executor.submit creates it, with the locals of its job body.
\* History kept for the properties: attempted (the saves and invocations begun,
\* as <<name, variant>>), written (those that succeeded), decoded (how the decode
\* ended), probed (how the probe ended), resized (the resizes made, as
\* <<base_width, density, <<new_width, new_height>>>>), emitted (the lines the
\* job passed to log_message) and faulted (a decode, tool call, mkdir or write of
\* the job failed while its input file was in place).
NewJob(f, s) ==
    [file |-> f, settings |-> s, pc |-> "queued", kind |-> "none", todo |-> <<>>,
     pending |-> "none", attempted |-> <<>>, written |-> {}, exc |-> "none",
     registered |-> FALSE, decoded |-> "none", probed |-> "none", faulted |-> FALSE,
     resized |-> {}, emitted |-> <<>>]

JobIds == DOMAIN jobs

\* future.done()
Done(j) == jobs[j].pc = "done"

RunningJobs == {j \in JobIds : jobs[j].pc \notin {"queued", "done"}}

\* the keys of active_futures; a deleted entry leaves a 0 in the entries array
ActiveKeys == SeqToSet(active_futures) \ {0}

\* ------------------------------------------------------------------ the log

Info(j, msgs) == [i \in 1..Len(msgs) |-> [job |-> j, msg |-> msgs[i], err |-> FALSE]]

Error(j, msg) == <<[job |-> j, msg |-> msg, err |-> TRUE]>>

\* variant: the log rebuilt from the new lines
log_message_rebuild(log, entries) == IF entries = <<>> THEN log ELSE entries

\* log_message, level 'info': processing_log.append(message), for each line in turn
log_message(log, entries) == log \o entries

ErrorLines(j) == Len(SelectSeq(processing_log, LAMBDA e : e.job = j /\ e.err))

\* ------------------------------------------------------ exceptions and tools

\* the classes raised by the modelled operations; all derive from Exception
ExceptionClasses == {"CalledProcessError", "FileNotFoundError", "PermissionError",
                     "UnidentifiedImageError", "OSError", "KeyError", "RuntimeError",
                     "IndexError"}

\* how subprocess.run ends: exit status 0, a non-zero status with a stderr that
\* has a line ("exit") or holds whitespace only ("blank"), the tool not found,
\* the tool not executable
ToolOutcomes == {"ok", "exit", "blank", "missing", "oserror"}

RunCommandRaises(out) ==
    CASE out = "ok" -> "none"
      [] out = "exit" -> "CalledProcessError"
      [] out = "blank" -> "IndexError"
      [] out = "missing" -> "FileNotFoundError"
      [] OTHER -> "PermissionError"

\* run_command: the lines it logs and the exception it re-raises
run_command(j, out, log_prefix) ==
    [lines |-> CASE out = "ok" -> Info(j, <<log_prefix \o " Completed">>)
                 [] out = "exit" -> Error(j, log_prefix \o " ERROR")
                 [] out = "missing" -> Error(j, "CRITICAL ERROR: Not found")
                 [] OTHER -> <<>>,
     raises |-> RunCommandRaises(out)]

\* no call of run_command is being followed
NoCall == [pc |-> "none", log_prefix |-> "", result |-> "none", raises |-> "none",
           returns |-> "none"]

\* how subprocess.run(check=True, capture_output=True, text=True) can end: the
\* tool is not found, or it exits with a status, its stderr and its stdout
ToolResult(kind, stderr, stdout) == [kind |-> kind, stderr |-> stderr, stdout |-> stdout]

\* the message of the CalledProcessError clause:
\* e.stderr.strip().splitlines()[-1] if e.stderr else 'Unknown error'
ErrorMessage(stderr) ==
    LET ls == SplitLines(StripWS(stderr))
    IN  IF stderr = <<>> THEN [raises |-> "none", text |-> "Unknown error"]
        ELSE IF ls = <<>> THEN [raises |-> "IndexError", text |-> ""]
        ELSE [raises |-> "none", text |-> Join(ls[Len(ls)])]

\* run_command for one result of the tool: the lines appended, the exception
\* that leaves it and the value returned
RunCommandCall(log_prefix, result) ==
    CASE result.kind = "ok" ->
           [lines |-> Info(0, <<log_prefix \o " Completed">>), raises |-> "none",
            returns |-> result.stdout]
      [] result.kind = "missing" ->
           [lines |-> Error(0, "CRITICAL ERROR: Not found"),
            raises |-> "FileNotFoundError", returns |-> "none"]
      [] OTHER ->
           LET m == ErrorMessage(result.stderr)
           IN  IF m.raises # "none"
               THEN [lines |-> <<>>, raises |-> m.raises, returns |-> "none"]
               ELSE [lines |-> Error(0, log_prefix \o " ERROR: " \o m.text),
                     raises |-> "CalledProcessError", returns |-> "none"]

\* run_command, from subprocess.run's end to its own return or raise
RunCommand ==
    /\ call.pc = "run"
    /\ LET r == RunCommandCall(call.log_prefix, call.result)
       IN  /\ processing_log' = log_message(processing_log, r.lines)
           /\ call' = [call EXCEPT !.pc = IF r.raises = "none" THEN "returned" ELSE "raised",
                                   !.raises = r.raises, !.returns = r.returns]
    /\ UNCHANGED <<main, last, config, darwin, configured, jobs, active_futures, source,
                   output, pollers>>

\* variant: the handler written for a failed exit status only
has_video_stream_except_exit(e) ==
    IF e = "CalledProcessError" THEN "return False" ELSE "uncaught"

\* the except clauses of has_video_stream: the handler taken, or "uncaught"
has_video_stream_except(e) == IF e \in ExceptionClasses THEN "return False" ELSE "uncaught"

\* the except clauses of process_image: the line logged, or "uncaught"
process_image_except(e) ==
    IF e = "CalledProcessError" THEN "Error: Failed to convert"
    ELSE IF e \in ExceptionClasses THEN "Unknown processing error"
    ELSE "uncaught"

\* variant: the handler written for the failures of the tool's launch only
process_video_except_launch(e) ==
    IF e \in {"FileNotFoundError", "PermissionError", "OSError"}
    THEN "Video processing error" ELSE "uncaught"

process_video_except(e) ==
    IF e \in ExceptionClasses THEN "Video processing error" ELSE "uncaught"

\* variant: the handler written for a failed exit status only
process_audio_only_except_exit(e) ==
    IF e = "CalledProcessError" THEN "Audio processing error" ELSE "uncaught"

process_audio_only_except(e) ==
    IF e \in ExceptionClasses THEN "Audio processing error" ELSE "uncaught"

\* a job body ends by an exception: its producer's handler logs it, or it escapes
\* to the future
Raise(job, j, e, handler) ==
    IF handler = "uncaught"
    THEN [job |-> [job EXCEPT !.pc = "done", !.todo = <<>>, !.pending = "none", !.exc = e],
          lines |-> <<>>]
    ELSE [job |-> [job EXCEPT !.pc = "done", !.todo = <<>>, !.pending = "none"],
          lines |-> Error(j, handler \o " " \o FileName(job.file))]

\* the end of process_image once the with block is left: the success line, the
\* return of the decode gate, or the outer except clauses
ImageFinish(job, j, pending) ==
    IF pending = "none"
    THEN [job |-> [job EXCEPT !.pc = "done", !.todo = <<>>, !.pending = "none"],
          lines |-> Info(j, <<"Done: " \o FileName(job.file)>>)]
    ELSE IF pending = "return"
    THEN [job |-> [job EXCEPT !.pc = "done", !.todo = <<>>, !.pending = "none"],
          lines |-> <<>>]
    ELSE Raise(job, j, pending, process_image_except(pending))

\* the with block of process_image is left with `pending` (none, return or an
\* exception): when the conversion branch was taken, the finally clause of
\* prepare_image_path runs first
ImageLeave(job, j, pending) ==
    IF UsesTemp(job.file)
    THEN [job |-> [job EXCEPT !.pc = "exit", !.pending = pending, !.todo = <<>>],
          lines |-> <<>>]
    ELSE ImageFinish(job, j, pending)

\* the lines a producer logs for its custom sizes and merged size map
PlanLines(j, settings, selected_msg) ==
    (IF get_custom_sizes(settings.custom_sizes).invalid
     THEN Error(j, "Error: Invalid custom size format.") ELSE <<>>)
    \o Info(j, <<selected_msg>>)

\* --------------------------------------------------------- request handlers

\* Api.select_work_directory -> save_settings -> load_settings
SelectWorkDirectory ==
    /\ ~configured
    /\ \E is_dir \in BOOLEAN : configured' = is_dir
    /\ UNCHANGED <<call, main, last, config, darwin, jobs, active_futures, processing_log, source,
                   output, pollers>>

\* upload_files, one file of the request: save, log, submit
Upload(f, s, cap) ==
    /\ configured
    /\ main.pc = "window"
    /\ Len(jobs) < cap
    /\ source' = source \cup {FileName(f)}
    /\ processing_log' = log_message(processing_log,
                                      Info(0, <<"Uploaded: " \o FileName(f)>>))
    /\ jobs' = Append(jobs, NewJob(f, s))
    /\ UNCHANGED <<call, main, last, config, darwin, configured, active_futures, output, pollers>>

\* upload_files: active_futures[job_id] = future
Register(j) ==
    /\ j \in JobIds
    /\ ~jobs[j].registered
    /\ active_futures' = Append(active_futures, j)
    /\ jobs' = [jobs EXCEPT ![j].registered = TRUE]
    /\ UNCHANGED <<call, main, last, config, darwin, configured, processing_log, source, output, pollers>>

\* ------------------------------------------------------------- the job body

\* a step of job j's thread: its locals become `job`, and it logs `lines`
Emit(j, job, lines) ==
    /\ jobs' = [jobs EXCEPT ![j] = [job EXCEPT !.emitted = @ \o lines]]
    /\ processing_log' = log_message(processing_log, lines)

\* a worker takes the oldest queued job: start_processing_job to its first effect
StartJob(j) ==
    /\ j \in JobIds
    /\ jobs[j].pc = "queued"
    /\ \A i \in JobIds : i < j => jobs[i].pc # "queued"
    /\ Cardinality(RunningJobs) < MaxWorkers
    /\ LET job == jobs[j]
           ext == Lower(job.file.ext)
       IN  IF ext \in SUPPORTED_IMAGE_FORMATS
           THEN Emit(j, [job EXCEPT !.kind = "image",
                                    !.pc = IF UsesTemp(job.file) THEN "convert"
                                           ELSE "decode"],
                     PlanLines(j, job.settings, "Selected dimensions for processing")
                     \o Info(j, <<"Image processing: " \o FileName(job.file)>>)
                     \o (IF UsesTemp(job.file)
                         THEN Info(j, <<"Conversion HEIC -> PNG (via sips)">>) ELSE <<>>))
           ELSE IF ext \in SUPPORTED_AV_FORMATS
           THEN Emit(j, [job EXCEPT !.pc = "probe"], <<>>)
           ELSE Emit(j, [job EXCEPT !.pc = "done"],
                     Info(j, <<"Skipping an unsupported file: " \o FileName(job.file)>>))
    /\ UNCHANGED <<call, main, last, config, darwin, configured, active_futures, source, output, pollers>>

\* prepare_image_path: the sips conversion to the intermediate file
Convert(j) ==
    /\ j \in JobIds
    /\ jobs[j].pc = "convert"
    /\ \E out \in ToolOutcomes, partial \in BOOLEAN :
         LET rc == run_command(j, out, "    ")
             left == ImageLeave(jobs[j], j, rc.raises)
         IN  /\ partial => out \in {"exit", "blank"}
             /\ IF rc.raises = "none"
                THEN /\ source' = source \cup {TempName(jobs[j].file)}
                     /\ Emit(j, [jobs[j] EXCEPT !.pc = "decode"], rc.lines)
                ELSE /\ source' = IF partial THEN source \cup {TempName(jobs[j].file)}
                                  ELSE source
                     /\ Emit(j, [left.job EXCEPT !.faulted = TRUE], rc.lines \o left.lines)
    /\ UNCHANGED <<call, main, last, config, darwin, configured, active_futures, output, pollers>>

DecodeOutcomes == {"ok", "UnidentifiedImageError", "OSError"}

\* variant: the decode error logged, and the producer going on
AfterDecode_goes_on(job, j, got) ==
    [job |-> [job EXCEPT !.pc = "mkdir"],
     lines |-> IF got = "ok" THEN <<>>
               ELSE Error(j, "Error: Unable to recognize " \o FileName(job.file))]

\* process_image after Image.open(...).convert(...) ended with `got`: on to
\* mkdir, or out of the with block by the decode gate's return or by the exception
AfterDecode(job, j, got) ==
    IF got = "ok"
    THEN [job |-> [job EXCEPT !.pc = "mkdir"], lines |-> <<>>]
    ELSE IF got = "UnidentifiedImageError"
    THEN LET left == ImageLeave(job, j, "return")
         IN  [job |-> left.job,
              lines |-> Error(j, "Error: Unable to recognize " \o FileName(job.file))
                        \o left.lines]
    ELSE ImageLeave(job, j, got)

\* Image.open(image_to_process).convert(...)
Decode(j) ==
    /\ j \in JobIds
    /\ jobs[j].pc = "decode"
    /\ \E out \in DecodeOutcomes :
         LET job == jobs[j]
             path == IF UsesTemp(job.file) THEN TempName(job.file) ELSE FileName(job.file)
             got == IF path \notin source THEN "FileNotFoundError" ELSE out
             seen == [job EXCEPT !.decoded = IF got = "ok" THEN "ok" ELSE "failed",
                                 !.faulted = @ \/ (path \in source /\ got # "ok")]
             next == AfterDecode(seen, j, got)
         IN  Emit(j, next.job, next.lines)
    /\ UNCHANGED <<call, main, last, config, darwin, configured, active_futures, source, output, pollers>>

ProbeOutcomes == {"video", "novideo", "exit", "blank", "missing", "oserror"}

\* has_video_stream, then the first lines of the producer start_processing_job calls
Probe(j) ==
    /\ j \in JobIds
    /\ jobs[j].pc = "probe"
    /\ \E out \in ProbeOutcomes :
         LET job == jobs[j]
             rc == run_command(j, IF out \in {"video", "novideo"} THEN "ok" ELSE out,
                               "Checking the video stream:")
             handler == has_video_stream_except(rc.raises)
             escaped == Raise([job EXCEPT !.faulted = TRUE, !.probed = out], j, rc.raises,
                              "uncaught")
         IN  IF rc.raises # "none" /\ handler = "uncaught"
             THEN Emit(j, escaped.job, rc.lines)
             ELSE IF out = "video"
             THEN Emit(j, [job EXCEPT !.kind = "video", !.pc = "mkdir", !.probed = out],
                       rc.lines \o PlanLines(j, job.settings, "Selected video sizes"))
             ELSE Emit(j, [job EXCEPT !.kind = "audio", !.pc = "mkdir", !.probed = out,
                                      !.faulted = rc.raises # "none"],
                       rc.lines \o Info(j, <<"Audio processing: " \o FileName(job.file)>>))
    /\ UNCHANGED <<call, main, last, config, darwin, configured, active_futures, source, output, pollers>>

\* the except clauses of the producer of a video or audio job
ProducerExcept(kind, e) ==
    IF kind = "video" THEN process_video_except(e) ELSE process_audio_only_except(e)

\* variant: the audio-only path planned like a video, from the user's settings
PlanOf_audio_as_video(job) ==
    CASE job.kind = "image" -> ImagePlan(job.file.stem, config.image_sizes, job.settings)
      [] OTHER -> VideoPlan(job.file, config.heights_map, job.settings)

\* the plan a producer runs once its output folder exists
PlanOf(job) ==
    CASE job.kind = "image" -> ImagePlan(job.file.stem, config.image_sizes, job.settings)
      [] job.kind = "video" -> VideoPlan(job.file, config.heights_map, job.settings)
      [] OTHER -> AudioPlan(job.file)

\* the plan's next lines are logged; a plan that is through ends the producer
Advance(job, j, rest) ==
    LET lines == Info(j, LeadingLogs(rest))
        todo == DropLogs(rest)
        left == ImageLeave(job, j, "none")
    IN  IF todo # <<>>
        THEN [job |-> [job EXCEPT !.pc = "work", !.todo = todo], lines |-> lines]
        ELSE IF job.kind = "image"
        THEN [job |-> left.job, lines |-> lines \o left.lines]
        ELSE [job |-> [job EXCEPT !.pc = "done", !.todo = <<>>], lines |-> lines]

\* variant: each invocation of process_video in a try block of its own, the
\* loop going on after the handler
Fail_per_invocation(job, j, e) ==
    IF job.kind = "image" THEN ImageLeave(job, j, e)
    ELSE IF job.kind = "video" /\ job.todo # <<>>
    THEN LET next == Advance(job, j, Tail(job.todo))
         IN  [job |-> next.job,
              lines |-> Error(j, process_video_except(e) \o " " \o FileName(job.file))
                        \o next.lines]
    ELSE Raise(job, j, e, ProducerExcept(job.kind, e))

\* an exception inside the producer's try block
Fail(job, j, e) ==
    IF job.kind = "image" THEN ImageLeave(job, j, e)
    ELSE Raise(job, j, e, ProducerExcept(job.kind, e))

\* file_output_folder.mkdir(exist_ok=True)
Mkdir(j) ==
    /\ j \in JobIds
    /\ jobs[j].pc = "mkdir"
    /\ \E ok \in BOOLEAN :
         LET job == jobs[j]
             next == IF ok
                     THEN Advance(job, j,
                                  (IF job.kind = "video"
                                   THEN <<LogOp("Video processing: " \o FileName(job.file))>>
                                   ELSE <<>>) \o PlanOf(job))
                     ELSE Fail([job EXCEPT !.faulted = TRUE], j, "OSError")
         IN  Emit(j, next.job, next.lines)
    /\ UNCHANGED <<call, main, last, config, darwin, configured, active_futures, source, output, pollers>>

\* the next save or run_command invocation of the plan
Work(j) ==
    /\ j \in JobIds
    /\ jobs[j].pc = "work"
    /\ \E out \in ToolOutcomes :
         LET job == jobs[j]
             o == Head(job.todo)
             rc == IF o.op = "cmd" THEN run_command(j, out, o.log_prefix)
                   ELSE [lines |-> <<>>,
                         raises |-> IF job.settings.image_format \notin FORMAT_MAPPING
                                    THEN "KeyError"
                                    ELSE IF out = "ok" THEN "none" ELSE "OSError"]
             tried == [job EXCEPT !.attempted = Append(@, <<o.name, o.variant>>),
                                  !.faulted = @ \/ rc.raises # "none",
                                  !.resized = IF o.op = "save" /\ o.variant[1] = "size"
                                              THEN @ \cup {<<o.base_width, o.variant[3],
                                                             ResizedSize(job.file, o.base_width,
                                                                         o.variant[3])>>}
                                              ELSE @]
             next == IF rc.raises = "none"
                     THEN Advance([tried EXCEPT !.written = @ \cup {<<o.name, o.variant>>}],
                                  j, Tail(job.todo))
                     ELSE Fail(tried, j, rc.raises)
         IN  /\ o.op = "save" => out \in {"ok", "oserror"}
             /\ Emit(j, next.job, rc.lines \o next.lines)
             /\ output' = IF rc.raises = "none"
                          THEN output \cup {<<job.file.stem, o.name>>} ELSE output
    /\ UNCHANGED <<call, main, last, config, darwin, configured, active_futures, source, pollers>>

\* prepare_image_path, finally: temp_png_path.exists()
Exit(j) ==
    /\ j \in JobIds
    /\ jobs[j].pc = "exit"
    /\ LET job == jobs[j]
           fin == ImageFinish(job, j, job.pending)
       IN  IF TempName(job.file) \in source
           THEN Emit(j, [job EXCEPT !.pc = "unlink"], <<>>)
           ELSE Emit(j, fin.job, fin.lines)
    /\ UNCHANGED <<call, main, last, config, darwin, configured, active_futures, source, output, pollers>>

\* prepare_image_path, finally: temp_png_path.unlink()
Unlink(j) ==
    /\ j \in JobIds
    /\ jobs[j].pc = "unlink"
    /\ LET job == jobs[j]
           fin == ImageFinish(job, j, IF TempName(job.file) \in source THEN job.pending
                                      ELSE "FileNotFoundError")
       IN  /\ source' = source \ {TempName(job.file)}
           /\ Emit(j, fin.job, fin.lines)
    /\ UNCHANGED <<call, main, last, config, darwin, configured, active_futures, output, pollers>>

\* ------------------------------------------------------- processing_status

Pollers == 1..NumPollers

IdlePoller == [pc |-> "idle", di_used |-> 0, pos |-> 0, completed |-> <<>>,
               resp |-> "none", count |-> 0]

\* the index of the next live entry of the dictionary after position pos, or 0
NextEntry(pos) ==
    LET live == {i \in (pos + 1)..Len(active_futures) : active_futures[i] # 0}
    IN  IF live = {} THEN 0 ELSE CHOOSE i \in live : \A k \in live : i <= k

\* return jsonify({"active_jobs": len(active_futures)})
Respond(p) == [IdlePoller EXCEPT !.resp = "ok", !.count = Cardinality(ActiveKeys)]

\* the request fails with the exception e
Abort(p, e) == [IdlePoller EXCEPT !.resp = "error"]

\* active_futures.items() is iterated: the iterator is created
PollBegin(p) ==
    /\ pollers[p].pc = "idle"
    /\ pollers' = [pollers EXCEPT ![p] = [IdlePoller EXCEPT !.pc = "scan",
                                          !.di_used = Cardinality(ActiveKeys)]]
    /\ UNCHANGED <<call, main, last, config, darwin, configured, jobs, active_futures, processing_log,
                   source, output>>

\* one step of the list comprehension: the iterator's next item and future.done()
PollScan(p) ==
    /\ pollers[p].pc = "scan"
    /\ LET me == pollers[p]
           i == NextEntry(me.pos)
       IN  pollers' = [pollers EXCEPT ![p] =
              IF Cardinality(ActiveKeys) # me.di_used
              THEN Abort(p, "RuntimeError")
              ELSE IF i # 0
              THEN [me EXCEPT !.pos = i,
                              !.completed = IF Done(active_futures[i])
                                            THEN Append(@, active_futures[i]) ELSE @]
              ELSE IF me.completed = <<>> THEN Respond(p)
              ELSE [me EXCEPT !.pc = "try"]]
    /\ UNCHANGED <<call, main, last, config, darwin, configured, jobs, active_futures, processing_log,
                   source, output>>

TaskError(job_id) ==
    Error(0, "Task " \o ToString(job_id) \o " ended with an error")

\* try: active_futures[job_id].result()  except Exception: log
PollTry(p) ==
    /\ pollers[p].pc = "try"
    /\ LET job_id == Head(pollers[p].completed)
       IN  processing_log' =
              IF job_id \notin ActiveKeys \/ jobs[job_id].exc # "none"
              THEN log_message(processing_log, TaskError(job_id))
              ELSE processing_log
    /\ pollers' = [pollers EXCEPT ![p].pc = "del"]
    /\ UNCHANGED <<call, main, last, config, darwin, configured, jobs, active_futures, source, output>>

\* del active_futures[job_id], and the response after the last one
PollDel(p) ==
    /\ pollers[p].pc = "del"
    /\ LET me == pollers[p]
           job_id == Head(me.completed)
       IN  IF job_id \notin ActiveKeys
           THEN /\ pollers' = [pollers EXCEPT ![p] = Abort(p, "KeyError")]
                /\ UNCHANGED active_futures
           ELSE /\ active_futures' = [i \in 1..Len(active_futures) |->
                                        IF active_futures[i] = job_id THEN 0
                                        ELSE active_futures[i]]
                /\ pollers' = [pollers EXCEPT ![p] =
                                 IF Tail(me.completed) = <<>>
                                 THEN [IdlePoller EXCEPT !.resp = "ok",
                                          !.count = Cardinality(ActiveKeys \ {job_id})]
                                 ELSE [me EXCEPT !.pc = "try",
                                                 !.completed = Tail(me.completed)]]
    /\ UNCHANGED <<call, main, last, config, darwin, configured, jobs, processing_log, source, output>>

\* ----------------------------------------------------------------- inputs

\* an uploaded file; width and height are those of the image it decodes to
File(stem, ext) == [stem |-> stem, ext |-> ext, width |-> 1000, height |-> 500]

Sized(f, width, height) == [f EXCEPT !.width = width, !.height = height]

Settings(fmts, mode, custom, sizes, retina) ==
    [image_format |-> fmts[1], video_format |-> fmts[2], compression_mode |-> mode,
     custom_sizes |-> custom, sizes_to_process |-> sizes, include_retina |-> retina]

Config(image_sizes, heights_map) == [image_sizes |-> image_sizes, heights_map |-> heights_map]

\* the inputs of the scheduler specification: an image that needs no conversion
\* and an unsupported file
Files == {File("photo", ".png"), File("notes", ".txt")}

SettingsSet == {Settings(<<"webp", "mp4">>, "standard", <<>>, {"thumb"}, FALSE)}

Configs == {Config(<< <<"thumb", 300>> >>, << <<"thumb", 360>> >>)}

\* the inputs of the concurrent-jobs specification: two assets of one base name,
\* one of them a HEIC source, and a container
PairFiles == {File("photo", ".png"), File("photo", ".heic"), File("clip", ".mp4")}

PairSettings ==
    {Settings(<<"webp", "mp4">>, "standard", <<>>, {"thumb"}, FALSE),
     Settings(<<"png", "webm">>, "standard", <<>>, {"full_size"}, FALSE)}

\* the inputs of the single-job specification
JobFiles == PairFiles \cup {File("notes", ".txt"), Sized(File("scan", ".PNG"), 1000, 333)}

JobFormats == {<<"webp", "mp4">>, <<"png", "webm">>, <<"tiff", "mp4">>}

JobCustoms == {<<>>, <<"5", "0", ",", "a", "b">>, <<" ", "7", ",", "sup2">>}

JobSettings ==
    {Settings(f, m, c, s, r) :
        f \in JobFormats, m \in {"standard", "max_compression"}, c \in JobCustoms,
        s \in SUBSET {"thumb", "hd", "full_size"}, r \in BOOLEAN}

JobConfigs ==
    {Config(<< <<"thumb", 300>>, <<"hd", 1280>> >>, << <<"thumb", 360>>, <<"hd", 720>> >>),
     Config(<< <<"thumb", 300>>, <<"full_size", 2000>> >>,
            << <<"hd", 720>>, <<"hd_compressed", 480>>, <<"full_size", 1080>> >>)}

\* no request of the other routes was answered yet
NoResponse == [op |-> "none", code |-> 0, log |-> <<>>, n |-> 0]

TypeInit ==
    /\ jobs = <<>>
    /\ active_futures = <<>>
    /\ processing_log = <<>>
    /\ source = {}
    /\ output = {}
    /\ pollers = [p \in Pollers |-> IdlePoller]
    /\ main = [pc |-> "window", stopped |-> 0, unfinished |-> 0]
    /\ last = NoResponse
    /\ call = NoCall

\* ------------------------------------------------------------ the main thread

\* a response of one of the routes; n counts the responses given
Response(op, code, log) == [op |-> op, code |-> code, log |-> log, n |-> last.n + 1]

\* the worker threads of the executor: one is started per submitted job while
\* there are fewer than max_workers
Threads == IF Len(jobs) < MaxWorkers THEN Len(jobs) ELSE MaxWorkers

\* variant: executor.shutdown(wait=False)
Joined_nowait(m) == TRUE

\* executor.shutdown(wait=True) has joined every worker thread
Joined(m) == m.stopped = Threads

\* webview.start() returns when the window is closed; executor.shutdown begins
CloseWindow ==
    /\ main.pc = "window"
    /\ main' = [main EXCEPT !.pc = "shutdown",
                            !.unfinished = Cardinality({j \in JobIds : ~Done(j)})]
    /\ UNCHANGED <<call, last, config, darwin, configured, jobs, active_futures,
                   processing_log, source, output, pollers>>

\* the files uploaded so far
Uploads ==
    Len(SelectSeq(processing_log,
                  LAMBDA e : \E f \in Files : e.msg = "Uploaded: " \o FileName(f)))

\* upload_files while the executor is shut down: the file is saved and logged,
\* executor.submit raises RuntimeError and the request fails
UploadRefused(f) ==
    /\ configured
    /\ main.pc = "shutdown"
    /\ Uploads - Len(jobs) < MaxRefused
    /\ source' = source \cup {FileName(f)}
    /\ processing_log' = log_message(processing_log,
                                      Info(0, <<"Uploaded: " \o FileName(f)>>))
    /\ last' = Response("upload", 500, <<>>)
    /\ UNCHANGED <<call, main, config, darwin, configured, jobs, active_futures, output,
                   pollers>>

\* an idle worker takes the None that shutdown queued behind the work items, and
\* returns
WorkerReturn ==
    /\ main.pc = "shutdown"
    /\ \A j \in JobIds : jobs[j].pc # "queued"
    /\ main.stopped + Cardinality(RunningJobs) < Threads
    /\ main' = [main EXCEPT !.stopped = @ + 1]
    /\ UNCHANGED <<call, last, config, darwin, configured, jobs, active_futures,
                   processing_log, source, output, pollers>>

\* executor.shutdown(wait=True) returns and the process exits
ExitProcess ==
    /\ main.pc = "shutdown"
    /\ Joined(main)
    /\ main' = [main EXCEPT !.pc = "exited"]
    /\ UNCHANGED <<call, last, config, darwin, configured, jobs, active_futures,
                   processing_log, source, output, pollers>>

\* --------------------------------------------------------- specifications

\* the scheduler: uploads, the worker pool and concurrent polls, over job bodies
\* that take neither the conversion nor the probe branch
Init ==
    /\ config \in Configs
    /\ darwin \in BOOLEAN
    /\ configured \in BOOLEAN
    /\ TypeInit

JobStep(j) ==
    \/ StartJob(j)
    \/ Convert(j)
    \/ Decode(j)
    \/ Probe(j)
    \/ Mkdir(j)
    \/ Work(j)
    \/ Exit(j)
    \/ Unlink(j)

Poll(p) ==
    \/ PollBegin(p)
    \/ PollScan(p)
    \/ PollTry(p)
    \/ PollDel(p)

PlainStep(j) ==
    \/ StartJob(j)
    \/ Decode(j)
    \/ Mkdir(j)
    \/ Work(j)

Next ==
    \/ SelectWorkDirectory
    \/ \E f \in Files, s \in SettingsSet : Upload(f, s, MaxJobs)
    \/ \E j \in 1..MaxJobs : Register(j)
    \/ \E j \in 1..MaxJobs : PlainStep(j)
    \/ \E p \in Pollers : Poll(p)

Spec == Init /\ [][Next]_vars

\* the scheduler when every tool invocation and request handler runs on: the
\* upload handler reaches its registration, the pool runs the job bodies and
\* each client of /processing_status keeps polling
Fairness ==
    /\ WF_vars(\E j \in 1..MaxJobs : Register(j))
    /\ \A j \in 1..MaxJobs : WF_vars(PlainStep(j))
    /\ \A p \in Pollers : WF_vars(Poll(p))

SpecLive == Spec /\ Fairness

\* one job at a time, over every file, settings bundle and profile
InitJob ==
    /\ config \in JobConfigs
    /\ darwin \in BOOLEAN
    /\ configured = TRUE
    /\ TypeInit

NextJob ==
    \/ \E f \in JobFiles, s \in JobSettings : Upload(f, s, 1)
    \/ JobStep(1)

SpecJob == InitJob /\ [][NextJob]_vars

\* jobs running concurrently in the worker pool
NextPair ==
    \/ \E f \in PairFiles, s \in PairSettings : Upload(f, s, MaxJobs)
    \/ \E j \in 1..MaxJobs : JobStep(j)

InitPair ==
    /\ config \in Configs
    /\ darwin \in BOOLEAN
    /\ configured = TRUE
    /\ TypeInit

SpecPair == InitPair /\ [][NextPair]_vars

\* ------------------------------------------------------- the log's routes

\* variant: the log emptied by clear_log
NewSession_empty == <<>>

\* the list clear_log binds processing_log to
NewSession == Info(0, <<"--- New processing session ---">>)

\* clear_log
ClearLog ==
    /\ last.n < MaxRequests
    /\ processing_log' = NewSession
    /\ last' = Response("clear_log", 200, <<>>)
    /\ UNCHANGED <<call, main, config, darwin, configured, jobs, active_futures, source,
                   output, pollers>>

\* status: the snapshot of the log
Status ==
    /\ last.n < MaxRequests
    /\ last' = Response("status", 200, processing_log)
    /\ UNCHANGED <<call, main, config, darwin, configured, jobs, active_futures,
                   processing_log, source, output, pollers>>

\* jobs logging while the log is read and cleared
NextLog ==
    \/ \E f \in Files, s \in SettingsSet : Upload(f, s, MaxJobs)
    \/ \E j \in 1..MaxJobs : PlainStep(j)
    \/ ClearLog
    \/ Status

SpecLog == InitPair /\ [][NextLog]_vars

\* ---------------------------------------------- the routes' configuration gate

\* variant: the routes served without the gate
NotConfigured_never == FALSE

\* not _source_dir or not _output_dir: load_settings has not set the folders
NotConfigured == ~configured

\* upload_files without a working folder
UploadRejected ==
    /\ NotConfigured
    /\ last.n < MaxRequests
    /\ last' = Response("upload", 400, <<>>)
    /\ UNCHANGED <<call, main, config, darwin, configured, jobs, active_futures,
                   processing_log, source, output, pollers>>

\* check_files: only reads the folders
CheckFiles ==
    /\ last.n < MaxRequests
    /\ last' = Response("check_files", IF NotConfigured THEN 400 ELSE 200, <<>>)
    /\ UNCHANGED <<call, main, config, darwin, configured, jobs, active_futures,
                   processing_log, source, output, pollers>>

\* clear_all_folders: every item of both folders is removed, or the removal stops
\* at an exception
ClearAll ==
    /\ last.n < MaxRequests
    /\ IF NotConfigured
       THEN /\ last' = Response("clear_all", 400, <<>>)
            /\ UNCHANGED <<processing_log, source, output>>
       ELSE \E ok \in BOOLEAN, kept_source \in SUBSET source, kept_output \in SUBSET output :
              /\ ok => (kept_source = {} /\ kept_output = {})
              /\ source' = kept_source
              /\ output' = kept_output
              /\ processing_log' = log_message(processing_log,
                      Info(0, <<"Cleaning the source and output folders...">>)
                      \o (IF ok THEN Info(0, <<"Folders successfully cleaned.">>)
                          ELSE Error(0, "Folders successfully cleaned: error")))
              /\ last' = Response("clear_all", IF ok THEN 200 ELSE 500, <<>>)
    /\ UNCHANGED <<call, main, config, darwin, configured, jobs, active_futures, pollers>>

\* the routes before and after the working folder is chosen
NextSetup ==
    \/ SelectWorkDirectory
    \/ \E f \in Files, s \in SettingsSet : Upload(f, s, MaxJobs)
    \/ \E j \in 1..MaxJobs : PlainStep(j)
    \/ UploadRejected
    \/ CheckFiles
    \/ ClearAll

SpecSetup == Init /\ [][NextSetup]_vars

\* ------------------------------------------------------ one tool invocation

\* the characters of the tool's stderr
StderrChars == {"a", "b", " ", "nl"}

RECURSIVE Texts(_)
\* the character sequences of length up to n
Texts(n) ==
    IF n = 0 THEN {<<>>}
    ELSE LET shorter == Texts(n - 1)
         IN  shorter \cup {Append(t, c) : t \in shorter, c \in StderrChars}

ToolResults ==
    {ToolResult("ok", <<>>, out) : out \in {"video", "{}"}}
    \cup {ToolResult("missing", <<>>, "none")}
    \cup {ToolResult("exit", t, "") : t \in Texts(MaxStderr)}

LogPrefixes == {"  Checking the video stream:", "  Creating a poster:"}

\* run_command called once, for every prefix and every end of the tool
InitCommand ==
    /\ config \in Configs
    /\ darwin = FALSE
    /\ configured = TRUE
    /\ jobs = <<>>
    /\ active_futures = <<>>
    /\ processing_log = <<>>
    /\ source = {}
    /\ output = {}
    /\ pollers = [p \in Pollers |-> IdlePoller]
    /\ main = [pc |-> "window", stopped |-> 0, unfinished |-> 0]
    /\ last = NoResponse
    /\ \E p \in LogPrefixes, r \in ToolResults :
          call = [NoCall EXCEPT !.pc = "run", !.log_prefix = p, !.result = r]

NextCommand == RunCommand

SpecCommand == InitCommand /\ [][NextCommand]_vars

\* the window is closed while jobs are queued or running
NextDrain ==
    \/ \E f \in Files, s \in SettingsSet : Upload(f, s, MaxJobs)
    \/ \E j \in 1..MaxJobs : PlainStep(j)
    \/ CloseWindow
    \/ \E f \in Files : UploadRefused(f)
    \/ WorkerReturn
    \/ ExitProcess

SpecDrain == InitPair /\ [][NextDrain]_vars

\* ------------------------------------------------------------- properties

\* the saves and invocations of a job's plan, as <<name, variant>>
EffectsOf(job) ==
    LET eff == Effects(PlanOf(job)) IN [i \in 1..Len(eff) |-> <<eff[i].name, eff[i].variant>>]

HasLine(j, msg, err) ==
    \E i \in 1..Len(processing_log) :
        processing_log[i] = [job |-> j, msg |-> msg, err |-> err]

\* the error lines of the producers that name the asset
ProducerErrors(f) ==
    {m \o " " \o FileName(f) :
        m \in {"Error: Unable to recognize", "Error: Failed to convert",
               "Unknown processing error", "Video processing error",
               "Audio processing error"}}

\* the lines that tell the producer's success
SuccessLines(f) ==
    {"Done: " \o FileName(f), "Video processed: " \o FileName(f),
     "Audio completed: " \o FileName(f)}

NamedErrorLines(j) ==
    Len(SelectSeq(processing_log,
                  LAMBDA e : e.job = j /\ e.err /\ e.msg \in ProducerErrors(jobs[j].file)))

Succeeded(j) ==
    \E i \in 1..Len(processing_log) :
        /\ processing_log[i].job = j
        /\ processing_log[i].msg \in SuccessLines(jobs[j].file)

PosterFailed(j) ==
    /\ jobs[j].kind = "video"
    /\ jobs[j].attempted # <<>>
    /\ jobs[j].attempted[1][2][1] = "poster"
    /\ jobs[j].attempted[1] \notin jobs[j].written

C3_NoExceptionEscapes ==
    \A j \in JobIds : jobs[j].exc = "none"

\* a job every kind of whose steps can fail has ended after a failure
C3_Witness ==
    \E j \in JobIds :
        /\ Done(j)
        /\ jobs[j].faulted
        /\ jobs[j].kind = "audio"
        /\ NamedErrorLines(j) = 1

\* C7: after a failed decode, process_image has written no variant (the asset's
\* output directory holds no file), and it ends with an error line naming the
\* asset and without the success line.
C7_DecodeFailureWritesNothing ==
    \A j \in JobIds :
        jobs[j].decoded = "failed" =>
            /\ jobs[j].written = {}
            /\ jobs[j].attempted = <<>>
            /\ {o \in output : o[1] = jobs[j].file.stem} = {}
            /\ Done(j) => (NamedErrorLines(j) = 1 /\ ~Succeeded(j))

\* the decode failed for an asset whose plan has variants
C7_Witness ==
    \E j \in JobIds :
        /\ Done(j)
        /\ jobs[j].decoded = "failed"
        /\ Effects(ImagePlan(jobs[j].file.stem, config.image_sizes, jobs[j].settings)) # <<>>

\* C10 as claimed: within one job, no two distinct variants of the plan are
\* written to the same file name.
C10_NoNameCollision ==
    \A j \in JobIds :
        \A a, b \in jobs[j].written : a[1] = b[1] => a[2] = b[2]

\* C4 as claimed: processing_status never fails with an exception: every request
\* is answered with the count of in-flight jobs.
C4_PollNeverFails ==
    \A p \in Pollers : pollers[p].resp # "error"

\* the handle of job j was deleted from active_futures
Reaped(j) == jobs[j].registered /\ j \notin ActiveKeys

TaskErrorLines(j) ==
    Len(SelectSeq(processing_log, LAMBDA e : <<e>> = TaskError(j)))

\* C5 as claimed: a job is removed from active_futures only once it is done, and
\* the log holds one 'Task ... ended with an error' line for a reaped job whose
\* future held an exception, and none for any other job.
C5_ReapedExactlyOnce ==
    \A j \in JobIds :
        /\ Reaped(j) => Done(j)
        /\ TaskErrorLines(j) = IF Reaped(j) /\ jobs[j].exc # "none" THEN 1 ELSE 0

\* the producer of job j ended without its success line
Failed(j) == Done(j) /\ jobs[j].kind # "none" /\ ~Succeeded(j)

\* C6 as claimed: when a job K fails, the log holds exactly one error line naming
\* K's asset, and every other job none of whose own steps failed has ended with
\* its success line and all the outputs of its plan written.
C6_FailureIsolated ==
    \A k \in JobIds :
        Failed(k) =>
            /\ NamedErrorLines(k) = 1
            /\ \A j \in JobIds \ {k} :
                  (Done(j) /\ ~jobs[j].faulted /\ jobs[j].kind # "none") =>
                      /\ Succeeded(j)
                      /\ jobs[j].written = SeqToSet(EffectsOf(jobs[j]))

\* the jobs whose conversion branch uses the intermediate file of job j
TempUsers(j) ==
    {i \in JobIds : UsesTemp(jobs[i].file) /\ TempName(jobs[i].file) = TempName(jobs[j].file)}

\* job j holds a converted intermediate file it has yet to decode
Reading(j) ==
    /\ UsesTemp(jobs[j].file)
    /\ jobs[j].pc = "decode"
    /\ TempName(jobs[j].file) \in source

\* the intermediate file is gone once process_image has returned and no other
\* job is inside the with block for the same file
C8_NoLeak ==
    \A j \in JobIds :
        (/\ UsesTemp(jobs[j].file)
         /\ \A i \in TempUsers(j) : jobs[i].pc \in {"queued", "convert", "done"}
         /\ \E i \in TempUsers(j) : Done(i))
        => TempName(jobs[j].file) \notin source

\* no step deletes the intermediate file a job has yet to decode, and no other
\* job's conversion writes it again
C8_NoForeignWrite ==
    \A j \in JobIds :
        Reading(j) =>
            /\ TempName(jobs[j].file) \in source'
            /\ \A i \in TempUsers(j) \ {j} :
                  ~(jobs[i].pc = "convert" /\ jobs'[i].pc = "decode")

\* C8 as claimed: the intermediate '.temp.png' file does not outlive
\* process_image, and while a job has yet to read its intermediate file no other
\* job deletes or overwrites it.
C8_TempScopedToJob == [](C8_NoLeak) /\ [][C8_NoForeignWrite]_vars

\* C9 as claimed: two jobs that run concurrently for distinct source paths never
\* write into the same output subdirectory.
C9_DisjointOutputFolders ==
    \A i, j \in JobIds :
        (/\ i # j
         /\ FileName(jobs[i].file) # FileName(jobs[j].file)
         /\ jobs[i].pc = "work"
         /\ jobs[j].pc = "work")
        => jobs[i].file.stem # jobs[j].file.stem

\* ------------------------------------------------- the files a producer writes

\* the image producer ended with its success line
ImageSucceeded(j) ==
    /\ jobs[j].kind = "image"
    /\ Done(j)
    /\ HasLine(j, "Done: " \o FileName(jobs[j].file), FALSE)

\* the names C11 lists for a base name, the labels of the merged size map, the
\* settings and a suffix
ListedNames(base, labels, settings, suffix) ==
    {base \o "_" \o l \o "@" \o ToString(d) \o "x" \o suffix \o "." \o settings.image_format :
        l \in labels, d \in (IF settings.include_retina THEN {1, 2} ELSE {1})}
    \cup (IF "full_size" \in settings.sizes_to_process
          THEN {base \o "_full_size" \o suffix \o "." \o settings.image_format}
          ELSE {})

ExpectedImageFiles(job) ==
    LET labels == {e[1] : e \in SeqToSet(MergedSizes(config.image_sizes, job.settings))}
    IN  ListedNames(job.file.stem, labels, job.settings, "")
        \cup (IF job.settings.compression_mode = "max_compression"
              THEN ListedNames(job.file.stem, labels, job.settings, "_compressed")
              ELSE {})

\* C11: when the source decodes and every write succeeds, the files process_image
\* writes are exactly the listed names: one per label of the merged size map and
\* density, the full-size name iff 'full_size' is selected, and the same names
\* with '_compressed' iff compression_mode is 'max_compression'; no other file is
\* written.
C11_ImageFilesExact ==
    \A j \in JobIds :
        ImageSucceeded(j) =>
            /\ {w[1] : w \in jobs[j].written} = ExpectedImageFiles(jobs[j])
            /\ {o[2] : o \in {x \in output : x[1] = jobs[j].file.stem}}
                  = ExpectedImageFiles(jobs[j])

\* an image with retina densities, full size and compressed copies was written
C11_Witness ==
    \E j \in JobIds :
        /\ ImageSucceeded(j)
        /\ jobs[j].settings.include_retina
        /\ jobs[j].settings.compression_mode = "max_compression"
        /\ "full_size" \in jobs[j].settings.sizes_to_process
        /\ Cardinality(ExpectedImageFiles(jobs[j])) >= 10

\* the size map of the producer that runs job j
ProfileOf(job) == IF job.kind = "video" THEN config.heights_map ELSE config.image_sizes

\* the custom tokens that are digit strings, as C12 reads them: the decimal
\* tokens, surrounding blanks apart; every other token is dropped
NumericTokens(custom_sizes_str) ==
    IF custom_sizes_str = <<>> THEN {}
    ELSE {Strip(t) : t \in {x \in SeqToSet(Split(custom_sizes_str, ",")) :
                               /\ Strip(x) # <<>>
                               /\ \A i \in 1..Len(Strip(x)) : Strip(x)[i] \in DecimalChars}}

ClaimedCustom(custom_sizes_str) ==
    {<<"custom_" \o Join(t) \o "px", IntOf(t)>> : t \in NumericTokens(custom_sizes_str)}

\* the profile restricted to the selected labels, overridden by the custom entries
ClaimedMerged(profile_sizes, settings) ==
    LET custom == ClaimedCustom(settings.custom_sizes)
    IN  {e \in SeqToSet(profile_sizes) :
            e[1] \in settings.sizes_to_process /\ e[1] \notin {c[1] : c \in custom}}
        \cup custom

\* C12 as claimed: the merged size map of a producer is the profile's map
\* restricted to sizes_to_process, updated with 'custom_{N}px' -> N for each
\* custom token that is a digit string; the other tokens are dropped without an
\* error.
C12_MergedSizeMap ==
    \A j \in JobIds :
        jobs[j].kind \in {"image", "video"} =>
            /\ SeqToSet(MergedSizes(ProfileOf(jobs[j]), jobs[j].settings))
                  = ClaimedMerged(ProfileOf(jobs[j]), jobs[j].settings)
            /\ ~HasLine(j, "Error: Invalid custom size format.", TRUE)

\* the files of the output tree under the folder of job j's asset
OutputOf(j) == {o \in output : o[1] = jobs[j].file.stem}

\* C13: start_processing_job runs the image producer iff the lower-cased
\* extension is a supported image extension; for a container extension it runs
\* the video producer iff the probe succeeded and reported a video stream, and
\* the audio-only producer after every other probe outcome (no video stream, tool
\* missing, non-zero exit); for any other extension it runs no producer and
\* writes no output.
C13_Routing ==
    \A j \in JobIds :
        LET job == jobs[j]
            ext == Lower(job.file.ext)
        IN  job.pc # "queued" =>
              /\ (job.kind = "image") = (ext \in SUPPORTED_IMAGE_FORMATS)
              /\ job.kind = "image" => job.probed = "none"
              /\ job.kind \in {"video", "audio"} => ext \in SUPPORTED_AV_FORMATS
              /\ (ext \in SUPPORTED_AV_FORMATS /\ ext \notin SUPPORTED_IMAGE_FORMATS) =>
                    /\ (job.pc = "probe") = (job.probed = "none")
                    /\ job.pc = "probe" => job.kind = "none"
                    /\ job.pc # "probe" =>
                          job.kind = (IF job.probed = "video" THEN "video" ELSE "audio")
              /\ (ext \notin SUPPORTED_IMAGE_FORMATS /\ ext \notin SUPPORTED_AV_FORMATS) =>
                    /\ job.kind = "none"
                    /\ Done(j)
                    /\ job.attempted = <<>>
                    /\ OutputOf(j) = {}

\* a container whose probe failed was routed to the audio-only producer, which
\* has run
C13_Witness ==
    \E j \in JobIds :
        /\ jobs[j].probed \in {"exit", "missing"}
        /\ jobs[j].kind = "audio"
        /\ Done(j)
        /\ jobs[j].attempted # <<>>

\* C14: the audio-only producer makes one transcoder invocation, for
\* '{base}.mp3', and nothing else is written into the asset's output directory,
\* whatever sizes_to_process, custom_sizes, video_format, compression_mode and
\* include_retina are: never a second invocation, and exactly one once the
\* producer has ended without an error.
C14_AudioOnlyOneOutput ==
    \A j \in JobIds :
        jobs[j].kind = "audio" =>
            LET name == jobs[j].file.stem \o ".mp3"
                names == {jobs[j].attempted[i][1] : i \in 1..Len(jobs[j].attempted)}
            IN  /\ Len(jobs[j].attempted) <= 1
                /\ names \subseteq {name}
                /\ {o[2] : o \in OutputOf(j)} \subseteq {name}
                /\ (Done(j) /\ NamedErrorLines(j) = 0) =>
                      /\ Len(jobs[j].attempted) = 1
                      /\ {o[2] : o \in OutputOf(j)} = {name}

\* an audio-only asset was transcoded under settings that ask for sizes, full
\* size, custom sizes, retina and compressed copies
C14_Witness ==
    \E j \in JobIds :
        /\ jobs[j].kind = "audio"
        /\ Done(j)
        /\ ErrorLines(j) = 0
        /\ jobs[j].settings.sizes_to_process = {"thumb", "hd", "full_size"}
        /\ jobs[j].settings.custom_sizes # <<>>
        /\ jobs[j].settings.compression_mode = "max_compression"
        /\ jobs[j].settings.include_retina
        /\ jobs[j].settings.video_format = "webm"

\* C15 as claimed: the height of every resized variant is the nearest integer to
\* source_height * (width * density) / source_width, and its width is
\* width * density.
C15_HeightIsNearest ==
    \A j \in JobIds :
        \A r \in jobs[j].resized :
            LET img == jobs[j].file
                exact2 == 2 * img.height * (r[1] * r[2])
                got2 == 2 * img.width * r[3][2]
            IN  /\ r[3][1] = r[1] * r[2]
                /\ got2 - exact2 <= img.width
                /\ exact2 - got2 <= img.width

\* the producer of job j has an empty merged size map and no full size to render
NothingRequested(j) ==
    /\ jobs[j].kind \in {"image", "video"}
    /\ MergedSizes(ProfileOf(jobs[j]), jobs[j].settings) = <<>>
    /\ ~IncludeFullSize(jobs[j].settings)

\* job j logged that no output was requested
LoggedNoOutput(j) ==
    \E i \in 1..Len(processing_log) :
        /\ processing_log[i].job = j
        /\ processing_log[i].msg = "No output requested: " \o FileName(jobs[j].file)

\* C16 as claimed: with an empty merged size map and 'full_size' not selected,
\* the image or video producer makes no save and no encoder invocation and writes
\* no file; when none of its steps failed it ends having logged that no output was
\* requested, and no error line.
C16_EmptyPlanRendersNothing ==
    \A j \in JobIds :
        NothingRequested(j) =>
            /\ jobs[j].attempted = <<>>
            /\ OutputOf(j) = {}
            /\ (Done(j) /\ ~jobs[j].faulted) => (LoggedNoOutput(j) /\ ErrorLines(j) = 0)

\* C17: the process does not exit until every job submitted to the worker pool
\* has finished running: at exit no job is queued or running.
C17_ExitAfterDrain ==
    main.pc = "exited" => \A j \in JobIds : Done(j)

\* the window was closed with jobs queued and running, and the process has exited
C17_Witness ==
    /\ main.pc = "exited"
    /\ main.unfinished >= 2
    /\ Len(jobs) >= 2

IsPrefix(s, t) == Len(s) <= Len(t) /\ SubSeq(t, 1, Len(s)) = s

\* the step is a clear_log request being answered
ClearStep == last'.n # last.n /\ last'.op = "clear_log"

\* C18: clear_log leaves the log holding exactly the sentinel line, every other
\* step only appends to the log, and status returns the log as it is: the
\* snapshot right after a clear is the sentinel line alone, and between two clears
\* every later snapshot has every earlier one as a prefix.
C18_ClearThenAppendOnly ==
    [][/\ ClearStep =>
             processing_log' = Info(0, <<"--- New processing session ---">>)
       /\ ~ClearStep => IsPrefix(processing_log, processing_log')
       /\ (last'.n # last.n /\ last'.op = "status") => last'.log = processing_log]_vars

\* status returned a log begun by the sentinel line and appended to since the clear
C18_Witness ==
    /\ last.op = "status"
    /\ Len(last.log) >= 3
    /\ <<last.log[1]>> = Info(0, <<"--- New processing session ---">>)

\* the entries of the log that job j appended
LogOf(j) == SelectSeq(processing_log, LAMBDA e : e.job = j)

\* C19: with jobs appending concurrently and no clear_log, the lines of each job
\* in the log are exactly the lines the job passed to log_message, each once and
\* in the order the job emitted them.
C19_NoLineLostOrReordered ==
    \A j \in JobIds : LogOf(j) = jobs[j].emitted

\* the lines of two jobs are interleaved in the log
C19_Witness ==
    \E i, k, l \in 1..Len(processing_log) :
        /\ i < k
        /\ k < l
        /\ processing_log[i].job = 1
        /\ processing_log[k].job = 2
        /\ processing_log[l].job = 1
        /\ Done(1)
        /\ Done(2)

\* while no working folder is set nothing was saved, submitted or logged
NothingDone ==
    /\ jobs = <<>>
    /\ active_futures = <<>>
    /\ processing_log = <<>>
    /\ source = {}
    /\ output = {}

\* a request of upload, check_files or clear_all answered without a working
\* folder gets 400 and changes nothing
Rejected ==
    (/\ ~configured
     /\ last'.n # last.n
     /\ last'.op \in {"upload", "check_files", "clear_all"})
    => /\ last'.code = 400
       /\ UNCHANGED <<jobs, active_futures, processing_log, source, output>>

\* C20: when the working directory is not configured, upload, check_files and
\* clear_all each return 400 and change nothing: no file is saved or deleted, no
\* job is submitted, active_futures is unchanged and no log line is appended.
C20_UnconfiguredRejected == [](~configured => NothingDone) /\ [][Rejected]_vars

\* three requests were rejected for the missing working folder, the last a
\* clear_all
C20_Witness ==
    /\ ~configured
    /\ last.n = 3
    /\ last.op = "clear_all"
    /\ last.code = 400

\* job j is queued or running
Bound(j) == j \in JobIds /\ ~Done(j)

\* no two jobs were submitted for one source path
OneJobPerPath ==
    \A i, j \in JobIds : i # j => FileName(jobs[i].file) # FileName(jobs[j].file)

\* this step is an upload that saves to the source path of job j
SavedOver(j) ==
    /\ Len(jobs') = Len(jobs) + 1
    /\ FileName(jobs'[Len(jobs')].file) = FileName(jobs[j].file)

\* no step saves over or removes the source file of a queued or running job
SourceUntouched ==
    \A j \in JobIds :
        Bound(j) =>
            /\ ~SavedOver(j)
            /\ FileName(jobs[j].file) \in source => FileName(jobs[j].file) \in source'

\* C21 as claimed: every source path is consumed by exactly one job and is never
\* mutated after its upload: no two jobs are bound to the same source path, and
\* a source file is never overwritten or deleted while a job bound to it is
\* queued or running.
C21_AssetConsumedOnce == [](OneJobPerPath) /\ [][SourceUntouched]_vars

\* the lines of a tool's stderr that hold more than whitespace
NonBlankLines(stderr) == SelectSeq(Split(stderr, "nl"), LAMBDA l : StripWS(l) # <<>>)

\* the texts the claim allows after "ERROR:": the last line of stderr, with or
\* without the whitespace around it, or 'Unknown error' when there is none
ClaimedMessages(stderr) ==
    LET ls == NonBlankLines(stderr)
        l == ls[Len(ls)]
    IN  IF ls = <<>> THEN {"Unknown error"}
        ELSE {Join(l), Join(StripWS(l)), Join(LStripWS(l)), Join(RStripWS(l))}

\* C22 as claimed: for every external command whose process exits non-zero,
\* run_command appends exactly one error line, made of the log prefix and the
\* last line of the tool's stderr (or 'Unknown error' when there is none), and
\* re-raises the CalledProcessError; on success it appends exactly one
\* 'Completed' line and returns stdout.
C22_OneLinePerInvocation ==
    call.pc \in {"returned", "raised"} =>
        /\ call.result.kind = "exit" =>
              /\ Len(processing_log) = 1
              /\ processing_log[1].err
              /\ \E m \in ClaimedMessages(call.result.stderr) :
                    processing_log[1].msg = call.log_prefix \o " ERROR: " \o m
              /\ call.pc = "raised"
              /\ call.raises = "CalledProcessError"
        /\ call.result.kind = "ok" =>
              /\ Len(processing_log) = 1
              /\ ~processing_log[1].err
              /\ processing_log[1].msg = call.log_prefix \o " Completed"
              /\ call.pc = "returned"
              /\ call.returns = call.result.stdout

\* the submitted jobs that are queued or running
InFlight == {j \in JobIds : ~Done(j)}

\* this step is poller p's answer with a count
Answers(p) ==
    /\ pollers[p].pc # "idle"
    /\ pollers'[p].pc = "idle"
    /\ pollers'[p].resp = "ok"

\* the count returned is never smaller than the number of jobs in flight
CountCoversInFlight ==
    \A p \in Pollers : Answers(p) => pollers'[p].count >= Cardinality(InFlight)

\* every submitted job is finished and reaped, and the counts returned are 0
Drained ==
    /\ \A j \in JobIds : Done(j) /\ Reaped(j)
    /\ \A p \in Pollers : pollers[p].resp = "ok" => pollers[p].count = 0

\* C23 as claimed: if every tool invocation terminates and the status endpoint
\* keeps being polled, every submitted job eventually finishes and is reaped,
\* and the in-flight count returned eventually becomes 0 and stays 0 until the
\* next upload; the count returned is never smaller than the number of
\* submitted jobs that are still queued or running.
C23_DrainsAndCounts == <>[]Drained /\ [][CountCoversInFlight]_vars

\* every file of job j's plan is in its output folder
PlannedFilesExist(j) ==
    \A i \in 1..Len(EffectsOf(jobs[j])) :
        <<jobs[j].file.stem, EffectsOf(jobs[j])[i][1]>> \in output

\* C24 as claimed: the success line of a producer is appended only after every
\* output of that asset's plan has been written successfully: whenever the
\* success line for a job is in the log, all planned files of that job exist
\* and no error line of that job is in the log.
C24_SuccessMeansAllWritten ==
    \A j \in JobIds :
        Succeeded(j) =>
            /\ jobs[j].written = SeqToSet(EffectsOf(jobs[j]))
            /\ PlannedFilesExist(j)
            /\ ErrorLines(j) = 0

====
